---- MODULE Spec2Model ----
(***************************************************************************)
(* The turntable tool of scripts/create_turntable.py: the settings panel   *)
(* (two spin box / slider pairs and the angle spin box), the Create and    *)
(* Apply buttons, and the part of the host scene they act on (objects,     *)
(* rotateY keys, playback options).                                        *)
(*                                                                         *)
(* Numbers.  Angles and times are Python floats in the code; here they are *)
(* exact rationals <<n, d>> in lowest terms with d > 0, so rounding error  *)
(* of the float arithmetic is not modelled.  The angle spin box holds two  *)
(* decimals (QDoubleSpinBox), so its value is kept in hundredths of a      *)
(* degree.  The integer spin boxes and sliders hold 32-bit ints.           *)
(***************************************************************************)
EXTENDS Integers, FiniteSets, Sequences, TLC

\* ------------------------------------------------------------------ bounds
\* Create is not offered while this many rigs, whole or in part, are in the
\* scene: MaxRigs where the whole panel is in play, one more where the
\* settings stay as they are.
MaxRigs == 1
SceneRigs == MaxRigs + 1

\* ------------------------------------------------------- program constants
DistanceSpinMinimum == 0
DistanceSpinMaximum == 2147483647
DistanceSliderMinimum == 0
DistanceSliderMaximum == 60
HeightSpinMinimum == -2147483647
HeightSpinMaximum == 2147483647
HeightSliderMinimum == -20
HeightSliderMaximum == 40
AngleSpinMinimum == -9000
AngleSpinMaximum == 9000
InitialCameraDistance == 5
InitialCameraHeight == 2
InitialAngleInterval == 75
FullTurn == 360

\* No object: the value of the three fields before the first Create, and of
\* a parent link at the top of the scene.
None == 0

\* ------------------------------------------------------------ input values
\* Values typed into (or dragged to on) the camera distance and camera
\* height controls and the angle spin box (hundredths of a degree), and the
\* host's playback options <<minTime, maxTime, animationEndTime>> when the
\* tool is opened.
DistanceValues == {5, 30}
HeightValues == {2, 10}
AngleValues == {0, 75, 200}
PlaybackChoices ==
    {<<<<1, 1>>, <<120, 1>>, <<200, 1>>>>,
     <<<<3, 1>>, <<600, 1>>, <<600, 1>>>>}

\* The same for the specification of the panel alone: values inside, at the
\* edge of and far outside the sliders' first ranges, and the ends of the
\* spin boxes' ranges.
PanelDistanceValues == {0, 5, 58, 59, 62, 100, 2147483647}
PanelHeightValues == {-2147483647, -100, -20, -19, 2, 39, 40, 2147483647}
PanelAngleValues == {-9000, 0, 75, 9000}

\* The same for the specification of the rotation alone: angles on both
\* sides of zero, whole and fractional frame counts, and start times that
\* are negative, zero, fractional and later than the playback end.
RotationAngleValues == {-9000, -75, 0, 1, 70, 75, 100, 200, 9000}
RotationPlaybackChoices ==
    {<<<<1, 1>>, <<120, 1>>, <<200, 1>>>>,
     <<<<0, 1>>, <<600, 1>>, <<600, 1>>>>,
     <<<<-10, 1>>, <<24, 1>>, <<48, 1>>>>,
     <<<<3, 2>>, <<1000, 1>>, <<2000, 1>>>>}

\* --------------------------------------------------------------- rationals
RECURSIVE GCD(_, _)
GCD(a, b) == IF b = 0 THEN a ELSE GCD(b, a % b)

Abs(x) == IF x < 0 THEN -x ELSE x

Rat(n, d) ==
    LET g == GCD(Abs(n), Abs(d))
        s == IF d < 0 THEN -1 ELSE 1
    IN  <<(s * n) \div g, (s * d) \div g>>

RInt(i) == <<i, 1>>
RAdd(p, q) == Rat(p[1] * q[2] + q[1] * p[2], p[2] * q[2])
RSub(p, q) == Rat(p[1] * q[2] - q[1] * p[2], p[2] * q[2])
RMul(p, q) == Rat(p[1] * q[1], p[2] * q[2])
RDiv(p, q) == Rat(p[1] * q[2], p[2] * q[1])
RLess(p, q) == p[1] * q[2] < q[1] * p[2]
RLeq(p, q) == p[1] * q[2] <= q[1] * p[2]

\* The angle spin box value (hundredths) as degrees.
Degrees(a) == Rat(a, 100)

\* ----------------------------------------------------------------- widgets
\* A spin box / slider pair is [spin |-> value of the QSpinBox,
\* slider |-> [value, minimum, maximum] of the QSlider].
Clamp(v, lo, hi) == IF v < lo THEN lo ELSE IF v > hi THEN hi ELSE v

Max(a, b) == IF a >= b THEN a ELSE b

\* QSlider.setRange(lo, hi): the maximum is at least the minimum and the
\* value is brought back inside the new range.
SetRange(slider, lo, hi) ==
    LET mx == Max(lo, hi)
    IN  [minimum |-> lo, maximum |-> mx, value |-> Clamp(slider.value, lo, mx)]

\* spinner_value >= slider.maximum() * buffer, buffer = 0.98, for integers
\* v and m: v >= 0.98 m iff v >= ceiling(0.98 m) = m - floor(m / 50).  The
\* product 98 * m is not formed, so that 32-bit values stay in range.
AtLeastBuffer(v, m) == v >= m - (m \div 50)

\* spinner_value <= slider.minimum() * buffer: v <= floor(0.98 m)
\* = m + floor(-m / 50).
AtMostBuffer(v, m) == v <= m + ((-m) \div 50)

\* The integer part of 0.07 * n for n >= 0, without forming 7 * n.
Excess(n) == 7 * (n \div 100) + (7 * (n % 100)) \div 100

\* spinner_value * increment, increment = 1.07, as the int the slider
\* receives: the float is converted by truncation toward zero.
Increment(v) == IF v >= 0 THEN v + Excess(v) ELSE v - Excess(-v)

\* The new maximum: v * 1.07, or the spin box's maximum when v * 1.07
\* reaches it (v * 1.07 >= hi iff 0.07 v >= hi - v, for v, hi >= 0).
max_spin(v, hi) ==
    IF v >= 0 /\ Excess(v) >= hi - v THEN hi ELSE Increment(v)

\* The new minimum: v * 1.07, or the spin box's minimum when v * 1.07
\* reaches it (v * 1.07 <= lo iff 0.07 |v| >= v - lo, for v, lo <= 0).
negative_spin(v, lo) ==
    IF v <= 0 /\ Excess(-v) >= v - lo THEN lo ELSE Increment(v)

\* A faulty on_value_changed that never touches the slider's range.
on_value_changed_NoRange(v, lo, hi, slider) == slider

\* A faulty on_value_changed whose buffer is 1.0: the range grows only once
\* the value has reached the limit itself.
on_value_changed_NoBuffer(v, lo, hi, slider) ==
    LET raised == IF v >= slider.maximum
                  THEN SetRange(slider, slider.minimum, max_spin(v, hi))
                  ELSE slider
    IN  IF lo < 0 /\ v <= raised.minimum
        THEN SetRange(raised, negative_spin(v, lo), raised.maximum)
        ELSE raised

\* on_value_changed(spinner_value, spin_box, slider); lo and hi are the spin
\* box's minimum and maximum.  The result is the slider afterwards.
on_value_changed(v, lo, hi, slider) ==
    LET raised == IF AtLeastBuffer(v, slider.maximum)
                  THEN SetRange(slider, slider.minimum, max_spin(v, hi))
                  ELSE slider
    IN  IF lo < 0 /\ AtMostBuffer(v, raised.minimum)
        THEN SetRange(raised, negative_spin(v, lo), raised.maximum)
        ELSE raised

\* The two valueChanged connections of a pair.  QSpinBox.setValue bounds the
\* value to the spin box's range and, when the value changes, runs its slots
\* in connection order: on_value_changed, then QSlider.setValue.
\* QSlider.setValue bounds the value to the slider's range and, when the
\* value changes, runs QSpinBox.setValue.
RECURSIVE SpinBoxSetValue(_, _, _, _)
RECURSIVE SliderSetValue(_, _, _, _)
SpinBoxSetValue(pair, v, lo, hi) ==
    LET b == Clamp(v, lo, hi)
    IN  IF b = pair.spin THEN pair
        ELSE SliderSetValue(
                 [spin |-> b, slider |-> on_value_changed(b, lo, hi, pair.slider)],
                 b, lo, hi)

SliderSetValue(pair, v, lo, hi) ==
    LET b == Clamp(v, pair.slider.minimum, pair.slider.maximum)
    IN  IF b = pair.slider.value THEN pair
        ELSE SpinBoxSetValue([pair EXCEPT !.slider.value = b], b, lo, hi)

\* ------------------------------------------------------------------- scene
\* A key of a rotateY channel: [time, value, inTangentType, outTangentType],
\* time and value rationals.
InRange(t, lo, hi) == RLeq(lo, t) /\ RLeq(t, hi)

\* A faulty end time that divides the full turn, not the turn less one step.
end_time_FullTurn(start_time, angle) ==
    RAdd(RDiv(RInt(FullTurn), angle), RSub(start_time, RInt(1)))

\* A faulty end time that leaves out the "- 1" of (start_time-1).
end_time_NoMinusOne(start_time, angle) ==
    RAdd(RDiv(RSub(RInt(FullTurn), angle), angle), start_time)

\* end_time = ((360-self.angle_interval)/self.angle_interval) + (start_time-1)
\* for a non-zero angle.
end_time(start_time, angle) ==
    RAdd(RDiv(RSub(RInt(FullTurn), angle), angle), RSub(start_time, RInt(1)))

\* A faulty cutKey that removes nothing.
cutKey_Nothing(keys, lo, hi) == keys

\* A faulty cutKey that removes every key from lo onward.
cutKey_FromStart(keys, lo, hi) == {k \in keys : RLess(k.time, lo)}

\* cmds.cutKey(rotator, time=(lo, hi), attribute="rotateY")
cutKey(keys, lo, hi) == {k \in keys : ~InRange(k.time, lo, hi)}

\* cmds.setKeyframe(rotator, time=t, attribute="rotateY", value=v): a key
\* already at t takes the value, otherwise a key with the host's default
\* tangents is added.
setKeyframe(keys, t, v) ==
    IF \E k \in keys : k.time = t
    THEN {IF k.time = t THEN [k EXCEPT !.value = v] ELSE k : k \in keys}
    ELSE keys \cup {[time |-> t, value |-> v,
                     inTangentType |-> "auto", outTangentType |-> "auto"]}

\* cmds.selectKey(rotator, time=(lo, hi), ...) followed by
\* cmds.keyTangent(inTangentType="linear", outTangentType="linear").
keyTangent(keys, lo, hi) ==
    {IF InRange(k.time, lo, hi)
     THEN [k EXCEPT !.inTangentType = "linear", !.outTangentType = "linear"]
     ELSE k : k \in keys}

\* A faulty playback update that only ever extends maxTime.
SetPlaybackEnd_ExtendOnly(pb, t1) ==
    [pb EXCEPT !.maxTime = IF RLess(pb.maxTime, t1) THEN t1 ELSE pb.maxTime,
               !.animationEndTime =
                   IF RLess(pb.animationEndTime, t1) THEN t1
                   ELSE pb.animationEndTime]

\* cmds.playbackOptions(maxTime=end_time), then animationEndTime raised to
\* end_time when it is smaller.
SetPlaybackEnd(pb, t1) ==
    [pb EXCEPT !.maxTime = t1,
               !.animationEndTime =
                   IF RLess(pb.animationEndTime, t1) THEN t1
                   ELSE pb.animationEndTime]

\* The rotateY keys of the rotator after set_rotation, start time t0 and end
\* time t1.
RotationKeys(keys, t0, t1, angle) ==
    keyTangent(
        setKeyframe(setKeyframe(cutKey(keys, t0, t1), t0, RInt(0)),
                    t1, RMul(t1, angle)),
        t0, t1)

\* set_rotation(rotator) on scene objects objs and playback options pb with
\* self.angle_interval = a (hundredths).  A zero angle raises
\* ZeroDivisionError at the division, before anything is changed.
set_rotation(rotator, objs, pb, a) ==
    IF a = 0
    THEN [raised |-> TRUE, objects |-> objs, playback |-> pb,
          start_time |-> pb.minTime, end_time |-> pb.minTime, cut |-> {}]
    ELSE LET t0 == pb.minTime
             t1 == end_time(t0, Degrees(a))
             old == objs[rotator].keys
         IN  [raised |-> FALSE,
              objects |-> [objs EXCEPT ![rotator].keys =
                               RotationKeys(old, t0, t1, Degrees(a))],
              playback |-> SetPlaybackEnd(pb, t1),
              start_time |-> t0, end_time |-> t1,
              cut |-> old \ cutKey(old, t0, t1)]

\* The objects o and everything parented under it, however deep (a rig is
\* three levels: sphere, group, camera).
Below(objs, o) ==
    LET sub1 == {o} \cup {x \in DOMAIN objs : objs[x].parent = o}
        sub2 == sub1 \cup {x \in DOMAIN objs : objs[x].parent \in sub1}
    IN  sub2 \cup {x \in DOMAIN objs : objs[x].parent \in sub2}

Restrict(f, S) == [x \in S |-> f[x]]

\* A faulty camera whose height and distance are exchanged.
NewCamera_Swapped(h, d, group) ==
    [kind |-> "camera", parent |-> group, translate |-> <<0, d, h>>,
     keys |-> {}]

\* cmds.camera(p=[0, self.camera_height, self.camera_distance]), parented
\* under the group with relative=True, which keeps its local position.
NewCamera(h, d, group) ==
    [kind |-> "camera", parent |-> group, translate |-> <<0, h, d>>,
     keys |-> {}]

\* A faulty move that sets translateY and translateZ the wrong way round.
MoveCamera_Swapped(objs, camera, h, d) ==
    [objs EXCEPT ![camera].translate = <<@[1], d, h>>]

\* cmds.setAttr of the camera's translateY and translateZ.
MoveCamera(objs, camera, h, d) ==
    [objs EXCEPT ![camera].translate = <<@[1], h, d>>]

\* New objects are numbered by rig: rig k is sphere 3k-2, camera 3k-1 and
\* group 3k.  A number is free, and taken by the next Create, when none of
\* its three objects is in the scene; rigs is how many numbers there are.
FreeSlots(objs, rigs) ==
    {k \in 1..rigs : DOMAIN objs \cap {3 * k - 2, 3 * k - 1, 3 * k} = {}}

FreeSlot(objs, rigs) ==
    CHOOSE k \in FreeSlots(objs, rigs) :
        \A j \in FreeSlots(objs, rigs) : k <= j

\* ------------------------------------------------------------------- state
VARIABLES
    distance,          \* camera_distance_spin_box and camera_distance_slider
    height,            \* camera_height_spin_box and camera_height_slider
    angle,             \* turntable_rotation_double_spin_box, in hundredths
    apply_enabled,     \* apply_push_button.isEnabled()
    camera_distance,   \* self.camera_distance
    camera_height,     \* self.camera_height
    angle_interval,    \* self.angle_interval, in hundredths
    turntable_field,   \* the object self.turntable_field links to, or None
    camera_field,      \* the object self.camera_field links to, or None
    group_field,       \* the object self.group_field links to, or None
    objects,           \* the scene: object |-> [kind, parent, translate, keys]
    playback,          \* [minTime, maxTime, animationEndTime] of the host
    rot                \* history: the last Create or Apply and its set_rotation

vars == <<distance, height, angle, apply_enabled, camera_distance,
          camera_height, angle_interval, turntable_field, camera_field,
          group_field, objects, playback, rot>>

panel == <<distance, height, angle>>
settings == <<camera_distance, camera_height, angle_interval>>
fields == <<turntable_field, camera_field, group_field>>

PlaybackOf(c) ==
    [minTime |-> c[1], maxTime |-> c[2], animationEndTime |-> c[3]]

NoRotation ==
    [by |-> "none", raised |-> FALSE, rebuilt |-> FALSE, rotator |-> None, start_time |-> RInt(0), end_time |-> RInt(0),
     cut |-> {}, before |-> PlaybackOf(<<RInt(0), RInt(0), RInt(0)>>)]

\* __init__ and initialize_UI, in a scene that holds no rig yet.
Init ==
    /\ distance = [spin |-> InitialCameraDistance,
                   slider |-> [value |-> InitialCameraDistance,
                               minimum |-> DistanceSliderMinimum,
                               maximum |-> DistanceSliderMaximum]]
    /\ height = [spin |-> InitialCameraHeight,
                 slider |-> [value |-> InitialCameraHeight,
                             minimum |-> HeightSliderMinimum,
                             maximum |-> HeightSliderMaximum]]
    /\ angle = InitialAngleInterval
    /\ apply_enabled = FALSE
    /\ camera_distance = InitialCameraDistance
    /\ camera_height = InitialCameraHeight
    /\ angle_interval = InitialAngleInterval
    /\ turntable_field = None
    /\ camera_field = None
    /\ group_field = None
    /\ objects = [o \in {} |-> None]
    /\ \E c \in PlaybackChoices : playback = PlaybackOf(c)
    /\ rot = NoRotation

\* ----------------------------------------------------------------- actions
\* The user sets the camera distance spin box to a value of V.
SetDistanceSpinBox(V) ==
    \E v \in V :
        /\ distance' = SpinBoxSetValue(distance, v, DistanceSpinMinimum,
                                       DistanceSpinMaximum)
        /\ UNCHANGED <<height, angle, apply_enabled, settings, fields,
                       objects, playback, rot>>

\* The user drags the camera distance slider to a value of V in its range.
DragDistanceSlider(V) ==
    \E v \in V :
        /\ distance.slider.minimum <= v /\ v <= distance.slider.maximum
        /\ distance' = SliderSetValue(distance, v, DistanceSpinMinimum,
                                      DistanceSpinMaximum)
        /\ UNCHANGED <<height, angle, apply_enabled, settings, fields,
                       objects, playback, rot>>

\* The user sets the camera height spin box to a value of V.
SetHeightSpinBox(V) ==
    \E v \in V :
        /\ height' = SpinBoxSetValue(height, v, HeightSpinMinimum,
                                     HeightSpinMaximum)
        /\ UNCHANGED <<distance, angle, apply_enabled, settings, fields,
                       objects, playback, rot>>

\* The user drags the camera height slider to a value of V in its range.
DragHeightSlider(V) ==
    \E v \in V :
        /\ height.slider.minimum <= v /\ v <= height.slider.maximum
        /\ height' = SliderSetValue(height, v, HeightSpinMinimum,
                                    HeightSpinMaximum)
        /\ UNCHANGED <<distance, angle, apply_enabled, settings, fields,
                       objects, playback, rot>>

\* The user sets the angle spin box; nothing is connected to it.
SetAngleSpinBox(V) ==
    \E a \in V :
        /\ angle' = Clamp(a, AngleSpinMinimum, AngleSpinMaximum)
        /\ UNCHANGED <<distance, height, apply_enabled, settings, fields,
                       objects, playback, rot>>

\* The record kept of a click on the button named by whose set_rotation
\* returned r: whether set_rotation raised, whether the
\* rig was built anew, the group animated, the start and end time, the keys
\* cutKey removed and the playback options before the click.
Rotation(by, rebuilt, rotator, r) ==
    [by |-> by, raised |-> r.raised, rebuilt |-> rebuilt, rotator |-> rotator, start_time |-> r.start_time,
     end_time |-> r.end_time, cut |-> r.cut, before |-> playback]

\* create_button_on_clicked, run for a click on the button named: the settings are read, then a sphere, a camera
\* and a group are created and recorded, the camera is parented under the
\* group and the group under the sphere, the group is animated and the Apply
\* button is enabled.  When set_rotation raises, the handler ends there.
create_button_on_clicked(clicked, rigs) ==
    LET slot == FreeSlot(objects, rigs)
        sphere == 3 * slot - 2
        camera == 3 * slot - 1
        group == 3 * slot
        built == [o \in DOMAIN objects \cup {sphere, camera, group} |->
                    IF o = sphere
                    THEN [kind |-> "sphere", parent |-> None,
                          translate |-> <<0, 0, 0>>, keys |-> {}]
                    ELSE IF o = camera
                    THEN NewCamera(height.spin, distance.spin, group)
                    ELSE IF o = group
                    THEN [kind |-> "group", parent |-> sphere,
                          translate |-> <<0, 0, 0>>, keys |-> {}]
                    ELSE objects[o]]
        r == set_rotation(group, built, playback, angle)
    IN  /\ FreeSlots(objects, rigs) # {}
        /\ camera_distance' = distance.spin
        /\ camera_height' = height.spin
        /\ angle_interval' = angle
        /\ turntable_field' = sphere
        /\ camera_field' = camera
        /\ group_field' = group
        /\ objects' = r.objects
        /\ playback' = r.playback
        /\ apply_enabled' = (apply_enabled \/ ~r.raised)
        /\ rot' = Rotation(clicked, clicked = "apply", group, r)
        /\ UNCHANGED panel

\* The user clicks Create.
CreateClick(rigs) == create_button_on_clicked("create", rigs)

\* apply_button_on_clicked: the settings are read; when the recorded camera
\* and group both exist the camera is moved and the group animated again,
\* otherwise the handler is create_button_on_clicked.
apply_button_on_clicked(rigs) ==
    IF camera_field \in DOMAIN objects /\ group_field \in DOMAIN objects
    THEN LET moved == MoveCamera(objects, camera_field, height.spin,
                                 distance.spin)
             r == set_rotation(group_field, moved, playback, angle)
         IN  /\ camera_distance' = distance.spin
             /\ camera_height' = height.spin
             /\ angle_interval' = angle
             /\ objects' = r.objects
             /\ playback' = r.playback
             /\ rot' = Rotation("apply", FALSE, group_field, r)
             /\ UNCHANGED <<panel, apply_enabled, fields>>
    ELSE create_button_on_clicked("apply", rigs)

\* The user clicks Apply, which the button allows once it is enabled.
ApplyClick(rigs) ==
    /\ apply_enabled
    /\ apply_button_on_clicked(rigs)

\* The user deletes an object in the host; what is parented under it goes
\* with it.
DeleteObject ==
    \E o \in DOMAIN objects :
        /\ objects' = Restrict(objects, DOMAIN objects \ Below(objects, o))
        /\ UNCHANGED <<panel, apply_enabled, settings, fields, playback,
                       rot>>

Next ==
    \/ SetDistanceSpinBox(DistanceValues)
    \/ DragDistanceSlider(DistanceValues)
    \/ SetHeightSpinBox(HeightValues)
    \/ DragHeightSlider(HeightValues)
    \/ SetAngleSpinBox(AngleValues)
    \/ CreateClick(MaxRigs)
    \/ ApplyClick(MaxRigs)
    \/ DeleteObject

Spec == Init /\ [][Next]_vars

\* The panel alone: the scene is left as it is.
PanelNext ==
    \/ SetDistanceSpinBox(PanelDistanceValues)
    \/ DragDistanceSlider(PanelDistanceValues)
    \/ SetHeightSpinBox(PanelHeightValues)
    \/ DragHeightSlider(PanelHeightValues)
    \/ SetAngleSpinBox(PanelAngleValues)

PanelSpec == Init /\ [][PanelNext]_vars

\* The rotation alone: the tool as the user has left the panel (distance and
\* height inside the sliders' first ranges, which setting them has not
\* changed), in a host with some playback options; the buttons are clicked
\* and objects deleted.
RotationInit ==
    /\ \E d \in DistanceValues :
           distance = [spin |-> d,
                       slider |-> [value |-> d,
                                   minimum |-> DistanceSliderMinimum,
                                   maximum |-> DistanceSliderMaximum]]
    /\ \E h \in HeightValues :
           height = [spin |-> h,
                     slider |-> [value |-> h,
                                 minimum |-> HeightSliderMinimum,
                                 maximum |-> HeightSliderMaximum]]
    /\ angle \in RotationAngleValues
    /\ apply_enabled = FALSE
    /\ camera_distance = InitialCameraDistance
    /\ camera_height = InitialCameraHeight
    /\ angle_interval = InitialAngleInterval
    /\ turntable_field = None
    /\ camera_field = None
    /\ group_field = None
    /\ objects = [o \in {} |-> None]
    /\ \E c \in RotationPlaybackChoices : playback = PlaybackOf(c)
    /\ rot = NoRotation

RotationNext ==
    \/ CreateClick(SceneRigs)
    \/ ApplyClick(SceneRigs)
    \/ DeleteObject

RotationSpec == RotationInit /\ [][RotationNext]_vars

\* ------------------------------------------------------------------ claims
\* The last click ran set_rotation to its end.
Rotated == rot.by # "none" /\ ~rot.raised

\* The angle the last click used, in degrees.
Delta == Degrees(angle_interval)

\* The group the last click animated is still in the scene, and its keys.
RotatorExists == rot.rotator \in DOMAIN objects
RotatorKeys == objects[rot.rotator].keys

LinearKey(t, v) ==
    [time |-> t, value |-> v,
     inTangentType |-> "linear", outTangentType |-> "linear"]

\* C1: in set_rotation, for every playback start time T0 and every angle
\* interval D with 0 < D <= 90, the end time is T0 - 1 + (360 - D)/D and is
\* strictly greater than T0.
C1_EndTimeFormula ==
    (Rotated /\ angle_interval > 0 /\ angle_interval <= AngleSpinMaximum) =>
        /\ rot.start_time = playback.minTime
        /\ rot.end_time =
               RAdd(RSub(playback.minTime, RInt(1)),
                    RDiv(RSub(RInt(FullTurn), Delta), Delta))
        /\ RLess(playback.minTime, rot.end_time)

\* A Create has run with an angle of 0.7 degrees from the start time 3/2:
\* neither the start nor the end time is a whole frame.
C1_Witness ==
    /\ Rotated
    /\ angle_interval = 70
    /\ playback.minTime = <<3, 2>>
    /\ rot.end_time = <<7193, 14>>

\* C2 as stated: with start time 1 and angle 0.75 the end time is 480 and
\* the end key is at frame 480 with rotateY 360.
C2_AsStated ==
    (Rotated /\ angle_interval = 75 /\ rot.start_time = RInt(1)
             /\ RotatorExists) =>
        /\ rot.end_time = RInt(480)
        /\ \E k \in RotatorKeys : k.time = RInt(480) /\ k.value = RInt(360)

\* C2, amended: with start time 1 and angle 0.75, set_rotation computes the
\* end time 479 = (360 - 0.75)/0.75 + (1 - 1) and puts the end key at frame
\* 479 with rotateY 359.25 (479 x 0.75); there is no key at frame 480.
C2_Example ==
    (Rotated /\ angle_interval = 75 /\ rot.start_time = RInt(1)
             /\ RotatorExists) =>
        /\ rot.end_time = RInt(479)
        /\ \E k \in RotatorKeys : k.time = RInt(479) /\ k.value = <<1437, 4>>
        /\ \A k \in RotatorKeys : k.time # RInt(480)

\* set_rotation has run with start time 1 and angle 0.75 and its group is in
\* the scene.
C2_Witness ==
    /\ Rotated
    /\ angle_interval = 75
    /\ rot.start_time = RInt(1)
    /\ RotatorExists
    /\ RotatorKeys # {}

\* C6 as stated: set_rotation never shortens the playback range: after any
\* Create or Apply, maxTime and animationEndTime are each at least what they
\* were before the click, and both are at least the end time T1.
C6_AsStated ==
    Rotated =>
        /\ RLeq(rot.before.maxTime, playback.maxTime)
        /\ RLeq(rot.before.animationEndTime, playback.animationEndTime)
        /\ RLeq(rot.end_time, playback.maxTime)
        /\ RLeq(rot.end_time, playback.animationEndTime)

\* C6, amended: set_rotation sets maxTime to the end time T1 itself, which
\* shortens the playback range when maxTime was greater; only
\* animationEndTime is never shortened.  After any Create or Apply that
\* completes with a positive angle, maxTime equals T1, animationEndTime is
\* at least what it was before the click and at least T1, and minTime is
\* what it was.
C6_PlaybackEnd ==
    (Rotated /\ angle_interval > 0) =>
        /\ playback.maxTime = rot.end_time
        /\ RLeq(rot.before.animationEndTime, playback.animationEndTime)
        /\ RLeq(rot.end_time, playback.animationEndTime)
        /\ playback.minTime = rot.before.minTime

\* A click has shortened the playback range: maxTime was greater than T1
\* before it and is T1 now.
C6_Witness ==
    /\ Rotated
    /\ angle_interval > 0
    /\ RLess(rot.end_time, rot.before.maxTime)
    /\ playback.maxTime = rot.end_time
    /\ RLess(rot.end_time, playback.animationEndTime)

\* C7: after set_rotation has run on a group with T0 < T1, the group's
\* rotateY channel has exactly two keys inside [T0, T1]: one at T0 with
\* value 0 and one at T1 with value T1 x angle_interval, both with linear in
\* and out tangents; every key that was inside [T0, T1] before is gone.
C7_TwoLinearKeys ==
    (Rotated /\ RLess(rot.start_time, rot.end_time) /\ RotatorExists) =>
        /\ {k \in RotatorKeys : InRange(k.time, rot.start_time, rot.end_time)}
               = {LinearKey(rot.start_time, RInt(0)),
                  LinearKey(rot.end_time, RMul(rot.end_time, Delta))}
        /\ \A k \in rot.cut :
               (RLess(rot.start_time, k.time) /\ RLess(k.time, rot.end_time))
                   => \A j \in RotatorKeys : j.time # k.time

\* set_rotation has run on a group that had a key strictly between T0 and
\* T1, left by an earlier run with a greater angle.
C7_Witness ==
    /\ Rotated
    /\ RotatorExists
    /\ \E k \in rot.cut :
           RLess(rot.start_time, k.time) /\ RLess(k.time, rot.end_time)

\* C10: for every angle the angle spin box admits, zero included, a Create
\* click runs to completion; in every reachable state, recorded rig handles
\* imply that Apply is enabled.
C10_HandlesImplyApply ==
    (turntable_field # None \/ camera_field # None \/ group_field # None)
        => apply_enabled

\* The recorded camera and group are both in the scene.
RigExists ==
    camera_field \in DOMAIN objects /\ group_field \in DOMAIN objects

\* The step adds exactly a sphere, a camera and a group, the three fields
\* link to them, the camera is under the group and the group under the
\* sphere, and every object that was in the scene is left as it was.
FreshRig ==
    LET new == DOMAIN objects' \ DOMAIN objects
    IN  /\ Cardinality(new) = 3
        /\ new = {turntable_field', camera_field', group_field'}
        /\ objects'[turntable_field'].kind = "sphere"
        /\ objects'[camera_field'].kind = "camera"
        /\ objects'[group_field'].kind = "group"
        /\ objects'[camera_field'].parent = group_field'
        /\ objects'[group_field'].parent = turntable_field'
        /\ objects'[turntable_field'].parent = None
        /\ objects'[camera_field'].translate =
               <<0, height.spin, distance.spin>>
        /\ \A o \in DOMAIN objects :
               o \in DOMAIN objects' /\ objects'[o] = objects[o]

\* The step reads the three spin boxes into the settings.
SettingsRead ==
    /\ camera_distance' = distance.spin
    /\ camera_height' = height.spin
    /\ angle_interval' = angle

\* C3: Create followed by Apply, with the three settings and the playback
\* start time unchanged in between and the rig not deleted, is idempotent:
\* after Apply the camera's position (0, camera_height, camera_distance) and
\* the rotateY keys of the group (times, values, tangents) are what they
\* were right after Create, and the playback range is the same.
C3_CreateThenApply ==
    [][(/\ ApplyClick(MaxRigs)
        /\ rot.by = "create" /\ ~rot.raised
        /\ distance.spin = camera_distance
        /\ height.spin = camera_height
        /\ angle = angle_interval
        /\ playback.minTime = rot.start_time
        /\ RigExists)
       => (/\ camera_field' = camera_field
           /\ group_field' = group_field
           /\ objects'[camera_field].translate =
                  <<0, camera_height, camera_distance>>
           /\ objects'[camera_field].translate =
                  objects[camera_field].translate
           /\ objects'[group_field].keys = objects[group_field].keys
           /\ objects'[group_field].keys # {}
           /\ playback'.minTime = playback.minTime
           /\ playback'.maxTime = playback.maxTime
           /\ playback' = playback)]_vars

\* An Apply has run on the rig as a Create makes it, away from the first
\* settings: it cut the two keys the group has now, moved nothing and left
\* the playback options as they were.
C3_Witness ==
    /\ rot.by = "apply" /\ ~rot.raised /\ ~rot.rebuilt
    /\ RigExists
    /\ rot.rotator = group_field
    /\ rot.cut = objects[group_field].keys
    /\ Cardinality(rot.cut) = 2
    /\ rot.before = playback
    /\ objects[camera_field].translate = <<0, 10, 30>>
    /\ camera_height = 10 /\ camera_distance = 30
    /\ angle_interval = 200

\* C4: Apply builds a new rig if and only if the recorded camera or group is
\* no longer in the scene.  When both exist, Apply creates no object, leaves
\* the three fields as they are, sets the camera's translateY and translateZ
\* to the current height and distance and regenerates the rotation
\* animation; when either is missing, Apply raises no error and has the
\* effect of Create.
C4_ApplyOrRebuild ==
    [][ApplyClick(MaxRigs) =>
        /\ rot'.by = "apply"
        /\ rot'.rebuilt <=> ~RigExists
        /\ SettingsRead
        /\ RigExists =>
               /\ DOMAIN objects' = DOMAIN objects
               /\ UNCHANGED fields
               /\ objects'[camera_field].translate =
                      <<objects[camera_field].translate[1], height.spin,
                        distance.spin>>
               /\ \A o \in DOMAIN objects \ {camera_field, group_field} :
                      objects'[o] = objects[o]
               /\ ~rot'.raised
               /\ rot'.rotator = group_field
        /\ ~RigExists =>
               /\ ~rot'.raised
               /\ FreshRig
               /\ rot'.rotator = group_field'
               /\ apply_enabled']_vars

\* C4 for the angles other than zero, the rest unchanged, with or without
\* parts of an earlier rig in the scene.
C4_NonZeroAngle ==
    [][(ApplyClick(SceneRigs) /\ angle # 0) =>
        /\ rot'.by = "apply"
        /\ rot'.rebuilt <=> ~RigExists
        /\ SettingsRead
        /\ RigExists =>
               /\ DOMAIN objects' = DOMAIN objects
               /\ UNCHANGED fields
               /\ objects'[camera_field].translate =
                      <<objects[camera_field].translate[1], height.spin,
                        distance.spin>>
               /\ \A o \in DOMAIN objects \ {camera_field, group_field} :
                      objects'[o] = objects[o]
               /\ ~rot'.raised
               /\ rot'.rotator = group_field
        /\ ~RigExists =>
               /\ ~rot'.raised
               /\ FreshRig
               /\ rot'.rotator = group_field'
               /\ apply_enabled']_vars

\* C5: a Create click that completes reads the current spin-box values and
\* adds exactly three objects to the scene: a sphere, a camera at
\* (0, camera_height, camera_distance) and an empty group, the camera under
\* the group and the group under the sphere; the three fields link to them,
\* earlier objects are left in the scene, the rotation animation is on the
\* new group and the Apply button is enabled.
C5_CreateBuildsRig ==
    [][(CreateClick(SceneRigs) /\ ~rot'.raised) =>
        /\ SettingsRead
        /\ FreshRig
        /\ objects'[camera_field'].translate =
               <<0, camera_height', camera_distance'>>
        /\ rot'.rotator = group_field'
        /\ \E k \in objects'[group_field'].keys :
               k.time = playback.minTime /\ k.value = RInt(0)
        /\ \E k \in objects'[group_field'].keys : k.time = rot'.end_time
        /\ objects'[camera_field'].keys = {}
        /\ objects'[turntable_field'].keys = {}
        /\ apply_enabled']_vars

\* A Create has completed with settings away from the first ones while an
\* earlier rig was in the scene: its sphere, camera and group are in the
\* scene and recorded next to the three earlier objects, the camera is at
\* (0, 10, 30) and the group carries two keys.
C5_Witness ==
    /\ rot.by = "create" /\ ~rot.raised
    /\ {turntable_field, camera_field, group_field} \subseteq DOMAIN objects
    /\ Cardinality(DOMAIN objects) = 6
    /\ objects[camera_field].translate = <<0, 10, 30>>
    /\ Cardinality(objects[group_field].keys) = 2
    /\ apply_enabled

\* Each spin box and its slider hold the same value.
Synced ==
    /\ distance.spin = distance.slider.value
    /\ height.spin = height.slider.value

\* C8: for camera distance and camera height, after any sequence of value
\* changes made through the spin box or the slider, the spin box and its
\* slider hold the same value; setting the spin box to any value of its own
\* range, also one outside the slider's range, leaves the slider at that
\* value.
C8_SpinBoxAndSliderAgree ==
    /\ []Synced
    /\ [][/\ \A v \in PanelDistanceValues :
                SetDistanceSpinBox({v}) =>
                    distance'.spin = v /\ distance'.slider.value = v
          /\ \A v \in PanelHeightValues :
                SetHeightSpinBox({v}) =>
                    height'.spin = v /\ height'.slider.value = v]_vars

\* Both spin boxes have been set to an end of their range, far outside the
\* sliders' first ranges, and the sliders have followed.
C8_Witness ==
    /\ distance.spin = DistanceSpinMaximum
    /\ distance.slider.value = DistanceSpinMaximum
    /\ height.spin = HeightSpinMinimum
    /\ height.slider.value = HeightSpinMinimum

\* v x 1.07 reaches the spin box's maximum hi, or its minimum lo.
ReachesMaximum(v, hi) == v >= 0 /\ Excess(v) >= hi - v
ReachesMinimum(v, lo) == v <= 0 /\ Excess(-v) >= v - lo

\* The auto-range rule as C9 states it, for a pair going from before to
\* after with the spin box's range lo..hi: the new limit is v x 1.07 itself.
AutoRangeAsStated(before, after, lo, hi) ==
    (after.spin # before.spin) =>
        LET v == after.spin
        IN  /\ IF AtLeastBuffer(v, before.slider.maximum)
               THEN IF ReachesMaximum(v, hi)
                    THEN after.slider.maximum = hi
                    ELSE 100 * after.slider.maximum = 107 * v
               ELSE after.slider.maximum = before.slider.maximum
            /\ IF lo < 0 /\ AtMostBuffer(v, before.slider.minimum)
               THEN IF ReachesMinimum(v, lo)
                    THEN after.slider.minimum = lo
                    ELSE 100 * after.slider.minimum = 107 * v
               ELSE after.slider.minimum = before.slider.minimum

\* The rule with the new limit the integer part of v x 1.07.
AutoRangeTruncated(before, after, lo, hi) ==
    (after.spin # before.spin) =>
        LET v == after.spin
            mx == after.slider.maximum
            mn == after.slider.minimum
        IN  /\ IF AtLeastBuffer(v, before.slider.maximum)
               THEN IF ReachesMaximum(v, hi)
                    THEN mx = hi
                    ELSE IF v >= 0
                         THEN 100 * mx <= 107 * v /\ 107 * v < 100 * (mx + 1)
                         ELSE 100 * mx >= 107 * v /\ 107 * v > 100 * (mx - 1)
               ELSE mx = before.slider.maximum
            /\ IF lo < 0 /\ AtMostBuffer(v, before.slider.minimum)
               THEN IF ReachesMinimum(v, lo)
                    THEN mn = lo
                    ELSE IF v >= 0
                         THEN 100 * mn <= 107 * v /\ 107 * v < 100 * (mn + 1)
                         ELSE 100 * mn >= 107 * v /\ 107 * v > 100 * (mn - 1)
               ELSE mn = before.slider.minimum

\* A slider's range does not shrink in the step, and the camera distance
\* slider's minimum stays 0.
RangeKept ==
    /\ distance'.slider.minimum = DistanceSliderMinimum
    /\ distance'.slider.maximum >= distance.slider.maximum
    /\ height'.slider.minimum <= height.slider.minimum
    /\ height'.slider.maximum >= height.slider.maximum

\* C9 as stated: on a spin-box change to v, if v >= 0.98 x slider.max the
\* slider maximum becomes min(v x 1.07, spin_box.max), otherwise it is
\* unchanged; for camera height, if v <= 0.98 x slider.min the slider
\* minimum becomes max(v x 1.07, spin_box.min), otherwise it is unchanged;
\* the camera distance slider's minimum stays 0 and no range shrinks.
C9_AsStated ==
    [][/\ AutoRangeAsStated(distance, distance', DistanceSpinMinimum,
                            DistanceSpinMaximum)
       /\ AutoRangeAsStated(height, height', HeightSpinMinimum,
                            HeightSpinMaximum)
       /\ RangeKept]_vars

\* C9, amended: the slider holds integers, so the new maximum is the integer
\* part (toward zero) of min(v x 1.07, spin_box.max) and the new minimum the
\* integer part of max(v x 1.07, spin_box.min); the thresholds, the
\* unchanged cases, the camera distance slider's minimum of 0 and the ranges
\* never shrinking are as stated.
C9_AutoRange ==
    [][/\ AutoRangeTruncated(distance, distance', DistanceSpinMinimum,
                             DistanceSpinMaximum)
       /\ AutoRangeTruncated(height, height', HeightSpinMinimum,
                             HeightSpinMaximum)
       /\ RangeKept]_vars

\* The distance spin box has gone to 59, within 2 % of the slider's maximum
\* 60, which has become 63 (59 x 1.07 = 63.13); the height spin box has gone
\* to -20, the slider's minimum, which has become -21 (-21.4).
C9_Witness ==
    /\ distance.spin = 59
    /\ distance.slider.maximum = 63
    /\ height.spin = -20
    /\ height.slider.minimum = -21

\* The last click animated the recorded group with an angle in (0, 90] and
\* the group is in the scene.
GroupRotated ==
    /\ Rotated
    /\ angle_interval > 0 /\ angle_interval <= AngleSpinMaximum
    /\ RotatorExists
    /\ rot.rotator = group_field

\* The two keys set_rotation leaves at the start time t0 and the end time t1
\* for the angle a (hundredths).
TurnKeys(t0, t1, a) ==
    {LinearKey(t0, RInt(0)), LinearKey(t1, RMul(t1, Degrees(a)))}

\* C11 as stated: after any sequence of Create and Apply clicks with changes
\* of the angle interval within (0, 90] between them and an unchanged
\* playback start time, the current rig's group has exactly two rotateY
\* keys in total, at the current T0 and the current T1; no key of an
\* earlier click with a different angle survives.
C11_AsStated ==
    GroupRotated =>
        /\ Cardinality(RotatorKeys) = 2
        /\ {k.time : k \in RotatorKeys} = {rot.start_time, rot.end_time}

\* C11, amended: set_rotation cuts the keys inside [T0, T1] only.  After any
\* sequence of Create and Apply clicks with changes of the angle interval
\* within (0, 90] between them and an unchanged playback start time, the
\* current rig's group has exactly two rotateY keys inside [T0, T1], at T0
\* and at T1; every other key on the channel lies after T1 and is the end
\* key of an earlier click with a smaller angle, still linear.  An Apply on
\* the rig in place keeps exactly the group's keys after the new T1 and
\* adds the two new ones, and a click that builds a rig leaves its group
\* with the two new keys alone.
C11_KeysAfterEndSurvive ==
    /\ [](GroupRotated =>
            /\ rot.start_time = playback.minTime
            /\ {k \in RotatorKeys : ~RLess(rot.end_time, k.time)}
                   = TurnKeys(rot.start_time, rot.end_time, angle_interval)
            /\ \A k \in RotatorKeys :
                   RLess(rot.end_time, k.time) =>
                       \E a \in 1..(angle_interval - 1) :
                           /\ k.time = end_time(rot.start_time, Degrees(a))
                           /\ k = LinearKey(k.time,
                                            RMul(k.time, Degrees(a))))
    /\ [][(/\ ApplyClick(MaxRigs)
            /\ angle > 0 /\ angle <= AngleSpinMaximum)
           => IF RigExists
              THEN objects'[group_field].keys =
                       {k \in objects[group_field].keys :
                            RLess(rot'.end_time, k.time)}
                       \cup TurnKeys(playback.minTime, rot'.end_time, angle)
              ELSE objects'[group_field'].keys =
                       TurnKeys(playback.minTime, rot'.end_time, angle)]_vars

\* An Apply with the angle raised from 0.75 to 2.00 at start time 1 has left
\* three keys on the group: the new ones at frames 1 and 179 and the end
\* key of the Create at frame 479.
C11_Witness ==
    /\ GroupRotated
    /\ rot.by = "apply" /\ ~rot.rebuilt
    /\ angle_interval = 200
    /\ rot.start_time = RInt(1)
    /\ rot.end_time = RInt(179)
    /\ Cardinality(RotatorKeys) = 3
    /\ LinearKey(RInt(479), <<1437, 4>>) \in RotatorKeys

====
